---- MODULE Spec2Model ----
(***************************************************************************)
(* Battery-health analysis of ev_stats: the single forward pass of         *)
(* handle_battery_data_extraction (src/soh_analysis.py) over the telemetry *)
(* log, with the BatteryDataProcessor it drives, and the two requests of   *)
(* the report service that store and render its result                     *)
(* (src/apps/ev/services.py).                                              *)
(*                                                                         *)
(* Units.  Python floats are modelled by exact numbers:                    *)
(*   soc, SoC deltas   fifths of a percent  (100 % = 500), see Pct         *)
(*   energy_in_kwh     whole kWh                                           *)
(*   cell_voltages     millivolts, so the code's "* 1000" is the unit      *)
(*   cell_temps_c      tenths of a degree Celsius                          *)
(*   SoH per cycle     an exact fraction <<num, den>> in lowest terms      *)
(*   2-decimal values  hundredths (100.00 = 10000), see round2             *)
(* Binary rounding error of the floats is not modelled.                    *)
(***************************************************************************)
EXTENDS Integers, Sequences, FiniteSets, TLC

VARIABLES
    log_data,      \* the input: [vehicle, logs_present, logs]
    pc,            \* "start", "loop", "done", "raised", "stored"
    i,             \* 1-based index of the sample the loop handles next
    processor,     \* the BatteryDataProcessor instance (a record of its fields)
    result,        \* the returned dict, a function from its keys
    appended,      \* history: indices of the samples lines 85-90 appended
    closed,        \* history: indices at which the branch of line 96 ran, in order
    peer,          \* a second invocation in the same process, a record
                   \* [log_data, pc, i, processor, result] of its own locals
    reports,       \* the vehicle_reports table, in the order of the ids
    rendered       \* the outcome of the last svc_render_report_html call,
                   \* [rid, raised, body], <<>> before the first call

vars == <<log_data, pc, i, processor, result, appended, closed, peer, reports,
          rendered>>

-----------------------------------------------------------------------------
(* Bounds of the model *)

\* longest log of the general specification
MaxLen == 3
\* longest log of the specification over several charge runs
MaxLongLen == 5
\* longest log of the specification of the anomaly detection
MaxAnomLen == 2
\* longest log of each of the two invocations of the specification of a pair
MaxPairLen == 2
\* longest log of the specification of the report service
MaxSvcLen == 2
\* longest log of the specification of successive charge runs
MaxRunsLen == 5
\* longest log of the specification of a pass that is never suspended
MaxFairLen == 3

-----------------------------------------------------------------------------
(* Numbers *)

\* a percentage (or a SoC delta) given in percent, in the model's fifths
Pct(x) == x * 5

Abs(x) == IF x < 0 THEN -x ELSE x

RECURSIVE Gcd(_, _)
Gcd(a, b) == IF b = 0 THEN a ELSE Gcd(b, a % b)

\* the fraction n/d (d > 0) in lowest terms
Rat(n, d) ==
    LET g == Gcd(Abs(n), d)
    IN  <<n \div g, d \div g>>

RatAdd(p, q) == Rat(p[1] * q[2] + q[1] * p[2], p[2] * q[2])

RatDivInt(p, n) == Rat(p[1], p[2] * n)

\* floor() of a SoC value, in whole percent
floor(soc) == soc \div Pct(1)

\* round(x, 2) of the non-negative fraction n/d, in hundredths, ties to even
RoundPos(n, d) ==
    LET w  == n \div d
        r  == n % d
        h  == (100 * r) \div d
        r2 == (100 * r) % d
        up == \/ 2 * r2 > d
              \/ 2 * r2 = d /\ (h % 2 = 1)
    IN  100 * w + h + (IF up THEN 1 ELSE 0)

\* round(x, 2) of the fraction p, in hundredths
round2(p) == IF p[1] < 0 THEN -RoundPos(-p[1], p[2]) ELSE RoundPos(p[1], p[2])

RECURSIVE SumRat(_)
SumRat(s) == IF s = <<>> THEN <<0, 1>> ELSE RatAdd(s[1], SumRat(Tail(s)))

RECURSIVE SumEnergy(_)
SumEnergy(s) == IF s = <<>> THEN 0 ELSE s[1].energy_in_kwh + SumEnergy(Tail(s))

SeqMax(s) == CHOOSE x \in {s[k] : k \in DOMAIN s} : \A y \in {s[k] : k \in DOMAIN s} : y <= x
SeqMin(s) == CHOOSE x \in {s[k] : k \in DOMAIN s} : \A y \in {s[k] : k \in DOMAIN s} : x <= y

\* Optional values: None is the empty sequence, a value v is <<v>>
None == <<>>
Some(v) == <<v>>

-----------------------------------------------------------------------------
(* Constants and thresholds, src/soh_analysis.py lines 13-34 *)

CHARGE_EVENT == "charge"
DRIVE_EVENT == "drive"
REST_EVENT == "rest"

MIN_DELTA_SOC == Pct(5)
MAX_CELL_VOLTAGE == 4200
MIN_CELL_VOLTAGE == 2500
IMBALANCE_MV_AT_REST == 30
IMBALANCE_MV_UNDER_LOAD == 60
\* C_RATE_LOAD_THRESHOLD = 0.1, as the fraction 1/C_RATE_LOAD_THRESHOLD_INV
C_RATE_LOAD_THRESHOLD_INV == 10
MAX_CELL_TEMP_C == 550
MIN_CELL_TEMP_C == 0
MAX_CELLS_TEMP_DIFFERENCE == 50

-----------------------------------------------------------------------------
(* class BatteryDataProcessor *)

\* __init__
NewProcessor(design_capacity_kwh, nominal_pack_voltage) ==
    [ current_charge                   |-> <<>>,
      reached_full_charge              |-> FALSE,
      charge_end                       |-> FALSE,
      charge_results                   |-> <<>>,
      design_capacity_kwh              |-> design_capacity_kwh,
      nominal_pack_voltage             |-> nominal_pack_voltage,
      last_soc                         |-> None,
      cumulative_soc_delta             |-> 0,
      cumulative_charge_soc_delta      |-> 0,
      voltage_difference_anomalies     |-> <<>>,
      voltage_range_anomalies          |-> <<>>,
      temperature_difference_anomalies |-> <<>>,
      temperature_range_anomalies      |-> <<>> ]

\* estimated_capacity = cumulative_charge*100 / delta_soc
\* charge_soh = estimated_capacity/design_capacity_kwh * 100
get_single_charge_result(cumulative_charge, delta_soc, design_capacity_kwh) ==
    LET estimated_capacity == Rat(cumulative_charge * 100 * Pct(1), delta_soc)
    IN  Rat(estimated_capacity[1] * 100, estimated_capacity[2] * design_capacity_kwh)

\* "if not self.reached_full_charge": does this call append its sample?
appends_sample(self) == ~self.reached_full_charge

\* bug variant: the flag is refreshed before the append is decided, so a
\* sample at 100 % is never buffered
buffer_after_append_flag_first(self, event_log) ==
    IF floor(event_log.soc) # 100
    THEN Append(self.current_charge,
                [soc |-> event_log.soc, energy_in_kwh |-> event_log.energy_in_kwh])
    ELSE self.current_charge

\* self.current_charge after lines 84-90
buffer_after_append(self, event_log) ==
    IF appends_sample(self)
    THEN Append(self.current_charge,
                [soc |-> event_log.soc, energy_in_kwh |-> event_log.energy_in_kwh])
    ELSE self.current_charge

\* self.reached_full_charge = floor(event_log['soc']) == 100
reached_full_update(event_log) == floor(event_log.soc) = 100

\* bug variant: a run of exactly MIN_DELTA_SOC passes the filter
delta_qualifies_ge(delta_soc) == delta_soc >= MIN_DELTA_SOC

\* "if delta_soc > MIN_DELTA_SOC"
delta_qualifies(delta_soc) == delta_soc > MIN_DELTA_SOC

\* bug variant: the full-charge flag survives the closure
reset_after_closure_keep_full(self) ==
    [self EXCEPT !.charge_end = FALSE, !.current_charge = <<>>]

\* bug variant: the run buffer survives the closure
reset_after_closure_keep_buffer(self) ==
    [self EXCEPT !.charge_end = FALSE, !.reached_full_charge = FALSE]

\* the reset that ends the closing branch
reset_after_closure(self) ==
    [self EXCEPT !.charge_end = FALSE,
                 !.reached_full_charge = FALSE,
                 !.current_charge = <<>>]

\* last_log[0] on an empty list raises IndexError
charging_event_raises(self, event_log) ==
    self.charge_end /\ buffer_after_append(self, event_log) = <<>>

\* bug variant: the newest value is put in front of the earlier ones
append_result_front(charge_results, charge_soh) == <<charge_soh>> \o charge_results

\* self.charge_results.append(...), line 110
append_result(charge_results, charge_soh) == Append(charge_results, charge_soh)

\* self.charge_results after the closing branch evaluated the run last_log
results_after_closure(self, last_log) ==
    LET start_soc         == last_log[1].soc
        end_soc           == last_log[Len(last_log)].soc
        cumulative_charge == SumEnergy(last_log)
        delta_soc         == Abs(end_soc - start_soc)
    IN  IF delta_qualifies(delta_soc)
        THEN append_result(self.charge_results,
                           get_single_charge_result(cumulative_charge, delta_soc,
                                                    self.design_capacity_kwh))
        ELSE self.charge_results

\* the call when it does not raise
handle_battery_charging_event(self, event_log) ==
    LET last_log == buffer_after_append(self, event_log)
        s1 == [self EXCEPT !.current_charge = last_log,
                           !.reached_full_charge = reached_full_update(event_log)]
    IN  IF self.charge_end
        THEN reset_after_closure(
                 [s1 EXCEPT !.charge_results = results_after_closure(self, last_log)])
        ELSE s1

\* bug variant: no cycle results gives 0 instead of None
get_average_soh_zero(self) ==
    IF self.charge_results # <<>>
    THEN Some(round2(RatDivInt(SumRat(self.charge_results), Len(self.charge_results))))
    ELSE Some(0)

\* bug variant: the sum is not divided by the number of cycles
get_average_soh_sum(self) ==
    IF self.charge_results # <<>>
    THEN Some(round2(SumRat(self.charge_results)))
    ELSE None

get_average_soh(self) ==
    IF self.charge_results # <<>>
    THEN Some(round2(RatDivInt(SumRat(self.charge_results), Len(self.charge_results))))
    ELSE None

\* bug variant: the first sample is measured against a SoC of 0
handle_overall_soc_changes_from_zero(self, current_soc, event) ==
    LET last == IF self.last_soc = None THEN 0 ELSE self.last_soc[1]
        current_soc_delta == Abs(current_soc - last)
    IN  [self EXCEPT
           !.cumulative_soc_delta = @ + current_soc_delta,
           !.last_soc = Some(current_soc),
           !.cumulative_charge_soc_delta =
               IF event = CHARGE_EVENT THEN @ + current_soc_delta ELSE @]

handle_overall_soc_changes(self, current_soc, event) ==
    IF self.last_soc = None
    THEN [self EXCEPT !.last_soc = Some(current_soc)]
    ELSE LET current_soc_delta == Abs(current_soc - self.last_soc[1])
         IN  [self EXCEPT
                !.cumulative_soc_delta = @ + current_soc_delta,
                !.last_soc = Some(current_soc),
                !.cumulative_charge_soc_delta =
                    IF event = CHARGE_EVENT THEN @ + current_soc_delta ELSE @]

\* bug variant: the operands of the subtraction are swapped
discharge_cycles_of_swapped(overall_cycles, charge_cycles) ==
    round2(Rat(charge_cycles - overall_cycles, 100))

\* the three rounded counts, in hundredths of a cycle
overall_cycles_of(self) == round2(Rat(self.cumulative_soc_delta, Pct(100)))
charge_cycles_of(self) == round2(Rat(self.cumulative_charge_soc_delta, Pct(100)))
discharge_cycles_of(overall_cycles, charge_cycles) ==
    round2(Rat(overall_cycles - charge_cycles, 100))

get_average_charge_discharge_cycles_data(self) ==
    LET overall_cycles == overall_cycles_of(self)
        charge_cycles  == charge_cycles_of(self)
    IN  [ overall_cycles   |-> overall_cycles,
          charge_cycles    |-> charge_cycles,
          discharge_cycles |-> discharge_cycles_of(overall_cycles, charge_cycles) ]

\* a dict holding only the keys whose list is not empty
NonEmptyKeys(d) == [k \in {x \in DOMAIN d : d[x] # <<>>} |-> d[k]]

\* bug variant: a C-rate of exactly 0.1 already counts as load
under_load_ge(self, log) ==
    Abs(log.pack_current) * self.nominal_pack_voltage * C_RATE_LOAD_THRESHOLD_INV
        >= self.design_capacity_kwh * 1000

\* current_c_rate > C_RATE_LOAD_THRESHOLD, with
\* nominal_capacity = design_capacity_kwh*1000/nominal_pack_voltage
under_load(self, log) ==
    Abs(log.pack_current) * self.nominal_pack_voltage * C_RATE_LOAD_THRESHOLD_INV
        > self.design_capacity_kwh * 1000

\* bug variant: a cell at exactly the lower limit is reported
voltage_too_low_le(min_voltage) == min_voltage <= MIN_CELL_VOLTAGE

\* max_voltage > MAX_CELL_VOLTAGE (line 163), min_voltage < MIN_CELL_VOLTAGE (line 172)
voltage_too_high(max_voltage) == max_voltage > MAX_CELL_VOLTAGE
voltage_too_low(min_voltage) == min_voltage < MIN_CELL_VOLTAGE

get_voltage_anomalies(self, log) ==
    LET min_voltage == SeqMin(log.cell_voltages)
        max_voltage == SeqMax(log.cell_voltages)
        voltage_difference_mv == max_voltage - min_voltage
        range(comment) ==
            [ min_voltage |-> min_voltage, max_voltage |-> max_voltage,
              max_allowed_voltage |-> MAX_CELL_VOLTAGE,
              min_allowed_voltage |-> MIN_CELL_VOLTAGE,
              comment |-> comment, timestamp |-> log.ts ]
        high == IF voltage_too_high(max_voltage)
                THEN <<range("Cell voltage too high")>> ELSE <<>>
        low  == IF voltage_too_low(min_voltage)
                THEN <<range("Cell voltage too low")>> ELSE <<>>
        threshold == IF under_load(self, log)
                     THEN IMBALANCE_MV_UNDER_LOAD ELSE IMBALANCE_MV_AT_REST
        comment == IF under_load(self, log)
                   THEN "Cell voltage difference exceeds threshold under load"
                   ELSE "Cell voltage difference exceeds threshold at rest"
        diff == IF voltage_difference_mv > threshold
                THEN << [ voltage_difference |-> voltage_difference_mv,
                          comment |-> comment, threshold |-> threshold,
                          timestamp |-> log.ts ] >>
                ELSE <<>>
    IN  NonEmptyKeys([ voltage_difference_anomalies |-> diff,
                       voltage_range_anomalies |-> high \o low ])

\* bug variant: a spread of exactly 5.0 degrees is reported
temperature_imbalanced_ge(cells_temperature_difference) ==
    cells_temperature_difference >= MAX_CELLS_TEMP_DIFFERENCE

\* the three comparisons of get_temperature_anomalies
temperature_too_high(max_cell_temperature) == max_cell_temperature > MAX_CELL_TEMP_C
temperature_too_low(min_cell_temperature) == min_cell_temperature < MIN_CELL_TEMP_C
temperature_imbalanced(cells_temperature_difference) ==
    cells_temperature_difference > MAX_CELLS_TEMP_DIFFERENCE

get_temperature_anomalies(log) ==
    LET max_cell_temperature == SeqMax(log.cell_temps_c)
        min_cell_temperature == SeqMin(log.cell_temps_c)
        cells_temperature_difference == max_cell_temperature - min_cell_temperature
        range(comment) ==
            [ min_cell_temperature |-> min_cell_temperature,
              max_cell_temperature |-> max_cell_temperature,
              min_allowed_cell_temperature |-> MIN_CELL_TEMP_C,
              max_allowed_cell_temperature |-> MAX_CELL_TEMP_C,
              comment |-> comment, timestamp |-> log.ts ]
        high == IF temperature_too_high(max_cell_temperature)
                THEN <<range("Cell temperature too high")>> ELSE <<>>
        low  == IF temperature_too_low(min_cell_temperature)
                THEN <<range("Cell temperature too low")>> ELSE <<>>
        diff == IF temperature_imbalanced(cells_temperature_difference)
                THEN << [ cells_temperature_difference |-> cells_temperature_difference,
                          max_cells_temperature_difference |-> MAX_CELLS_TEMP_DIFFERENCE,
                          comment |-> "Cell temperature difference too high",
                          timestamp |-> log.ts ] >>
                ELSE <<>>
    IN  NonEmptyKeys([ temperature_range_anomalies |-> high \o low,
                       temperature_difference_anomalies |-> diff ])

\* bug variant: the list is assigned, not extended
ExtendFrom_assign(lst, d, key) == IF key \in DOMAIN d THEN d[key] ELSE lst

\* bug variant: records are taken only while the list is still empty
ExtendFrom_first_only(lst, d, key) ==
    IF key \in DOMAIN d /\ lst = <<>> THEN d[key] ELSE lst

\* d.get(key) and lst.extend(d[key])
ExtendFrom(lst, d, key) == IF key \in DOMAIN d THEN lst \o d[key] ELSE lst

handle_anomalies_detection(self, log) ==
    LET voltage_anomalies     == get_voltage_anomalies(self, log)
        temperature_anomalies == get_temperature_anomalies(log)
    IN  [self EXCEPT
           !.voltage_difference_anomalies =
               ExtendFrom(@, voltage_anomalies, "voltage_difference_anomalies"),
           !.voltage_range_anomalies =
               ExtendFrom(@, voltage_anomalies, "voltage_range_anomalies"),
           !.temperature_difference_anomalies =
               ExtendFrom(@, temperature_anomalies, "temperature_difference_anomalies"),
           !.temperature_range_anomalies =
               ExtendFrom(@, temperature_anomalies, "temperature_range_anomalies")]

\* bug variant: a list is reported only when it holds a record
get_detected_anomalies_non_empty(self) ==
    [ voltage |->
        NonEmptyKeys([ voltage_range_anomalies |-> self.voltage_range_anomalies,
                       voltage_difference_anomalies |-> self.voltage_difference_anomalies ]),
      temperature |->
        NonEmptyKeys([ temperature_range_anomalies |-> self.temperature_range_anomalies,
                       temperature_difference_anomalies |->
                           self.temperature_difference_anomalies ]) ]

get_detected_anomalies(self) ==
    [ voltage |->
        [ voltage_range_anomalies |-> self.voltage_range_anomalies,
          voltage_difference_anomalies |-> self.voltage_difference_anomalies ],
      temperature |->
        [ temperature_range_anomalies |-> self.temperature_range_anomalies,
          temperature_difference_anomalies |-> self.temperature_difference_anomalies ] ]

-----------------------------------------------------------------------------
(* handle_battery_data_extraction *)

\* bug variant: the lookahead also reads the SoC of the next sample and closes
\* the run when it is lower
charge_end_flag_peek_soc(logs, k) ==
    \/ /\ k + 1 <= Len(logs)
       /\ logs[k + 1].event # CHARGE_EVENT \/ logs[k + 1].soc < logs[k].soc
    \/ k = Len(logs)

\* bug variant: the last sample of the log does not close its run
charge_end_flag_no_last(logs, k) ==
    k + 1 <= Len(logs) /\ logs[k + 1].event # CHARGE_EVENT

\* processor.charge_end = (i+1 < len(logs) and logs[i+1]["event"] != CHARGE_EVENT)
\*                        or i+1 == len(logs), for the 1-based index k
charge_end_flag(logs, k) ==
    \/ k + 1 <= Len(logs) /\ logs[k + 1].event # CHARGE_EVENT
    \/ k = Len(logs)

\* bug variant: only a missing key returns early, an empty list does not
no_logs_absent_only(data) == ~data.logs_present

\* "if not logs": the key is absent (None) or the list is empty
no_logs(data) == ~data.logs_present \/ data.logs = <<>>

\* the early return of line 307
empty_result == [k \in {} |-> None]

\* battery_data, lines 333-345
battery_data_of(vehicle_data, self) ==
    [ vehicle_info |->
        [ vin   |-> vehicle_data.vin,
          make  |-> vehicle_data.make,
          model |-> vehicle_data.model,
          year  |-> vehicle_data.year,
          design_capacity_kwh |-> vehicle_data.design_capacity_kwh ],
      soh       |-> get_average_soh(self),
      cdc_data  |-> get_average_charge_discharge_cycles_data(self),
      anomalies |-> get_detected_anomalies(self) ]

\* bug variant: one processor per process, reused by the next invocation
construct_processor_singleton(existing, design_capacity_kwh, nominal_pack_voltage) ==
    IF existing # <<>> THEN existing
    ELSE NewProcessor(design_capacity_kwh, nominal_pack_voltage)

\* bug variant: the four anomaly lists belong to the class, every instance
\* starts with what an earlier instance left in them
construct_processor_class_lists(existing, design_capacity_kwh, nominal_pack_voltage) ==
    IF existing # <<>>
    THEN [NewProcessor(design_capacity_kwh, nominal_pack_voltage) EXCEPT
            !.voltage_range_anomalies = existing.voltage_range_anomalies,
            !.voltage_difference_anomalies = existing.voltage_difference_anomalies,
            !.temperature_range_anomalies = existing.temperature_range_anomalies,
            !.temperature_difference_anomalies =
                existing.temperature_difference_anomalies]
    ELSE NewProcessor(design_capacity_kwh, nominal_pack_voltage)

\* line 309: processor = BatteryDataProcessor(...), a new instance whatever
\* instance another invocation holds
construct_processor(existing, design_capacity_kwh, nominal_pack_voltage) ==
    NewProcessor(design_capacity_kwh, nominal_pack_voltage)

\* lines 313-322 for sample k: the processor as the charging handler finds it
before_handler(self, logs, k) ==
    LET log == logs[k]
        p1 == handle_overall_soc_changes(self, log.soc, log.event)
        p2 == handle_anomalies_detection(p1, log)
    IN  IF log.event = CHARGE_EVENT
        THEN [p2 EXCEPT !.charge_end = charge_end_flag(logs, k)]
        ELSE p2

\* the iteration for sample k raises (IndexError of line 100)
loop_raises(self, logs, k) ==
    /\ logs[k].event = CHARGE_EVENT
    /\ charging_event_raises(before_handler(self, logs, k), logs[k])

\* lines 313-323 for sample k when nothing is raised
loop_body(self, logs, k) ==
    IF logs[k].event = CHARGE_EVENT
    THEN handle_battery_charging_event(before_handler(self, logs, k), logs[k])
    ELSE before_handler(self, logs, k)

\* d[key] raises KeyError
missing(d, key) == key \notin DOMAIN d

\* min() and max() of an empty list raise ValueError
no_reading(log, key) == missing(log, key) \/ log[key] = <<>>

\* line 309 raises: the profile lacks a field the constructor is given
start_raises(data) ==
    \/ missing(data.vehicle, "design_capacity_kwh")
    \/ missing(data.vehicle, "nominal_pack_voltage")

\* the iteration for sample k raises on a field it reads, in the order of the
\* reads: event (313), soc (314), cell_voltages (157), pack_current (186),
\* cell_temps_c (220), the event of the next sample (322) and, for a Charge
\* sample that is appended, energy_in_kwh (88)
sample_raises(self, logs, k) ==
    LET log == logs[k]
    IN  \/ missing(log, "event")
        \/ missing(log, "soc")
        \/ no_reading(log, "cell_voltages")
        \/ missing(log, "pack_current")
        \/ no_reading(log, "cell_temps_c")
        \/ /\ log.event = CHARGE_EVENT
           /\ \/ k + 1 <= Len(logs) /\ missing(logs[k + 1], "event")
              \/ appends_sample(self) /\ missing(log, "energy_in_kwh")

\* lines 335-339 raise: the profile lacks a field the result echoes
finish_raises(data) ==
    \E key \in {"vin", "make", "model", "year", "design_capacity_kwh"} :
        missing(data.vehicle, key)

\* the processor of an invocation that runs alone, after its first n samples
RECURSIVE pass_upto(_, _)
pass_upto(data, n) ==
    IF n = 0
    THEN NewProcessor(data.vehicle.design_capacity_kwh,
                      data.vehicle.nominal_pack_voltage)
    ELSE loop_body(pass_upto(data, n - 1), data.logs, n)

\* lines 303-307: no samples, return {}
ReturnEmpty ==
    /\ pc = "start"
    /\ no_logs(log_data)
    /\ result' = empty_result
    /\ pc' = "done"
    /\ UNCHANGED <<log_data, i, processor, appended, closed, peer, reports, rendered>>

\* lines 303-309: there are samples, build the processor and enter the loop
Start ==
    /\ pc = "start"
    /\ ~no_logs(log_data)
    /\ IF start_raises(log_data)
       THEN /\ pc' = "raised"
            /\ UNCHANGED <<processor, i>>
       ELSE /\ processor' = construct_processor(peer.processor,
                                                log_data.vehicle.design_capacity_kwh,
                                                log_data.vehicle.nominal_pack_voltage)
            /\ i' = 1
            /\ pc' = "loop"
    /\ UNCHANGED <<log_data, result, appended, closed, peer, reports, rendered>>

\* lines 311-323: one iteration of the loop, for sample i
ProcessSample ==
    /\ pc = "loop"
    /\ i <= Len(log_data.logs)
    /\ LET logs  == log_data.logs
           log   == logs[i]
           p3 == before_handler(processor, logs, i)
       IN  IF sample_raises(processor, logs, i)
           THEN \* the exception leaves the call, its processor is dropped
                /\ pc' = "raised"
                /\ processor' = <<>>
                /\ UNCHANGED <<i, appended, closed>>
           ELSE
           IF log.event = CHARGE_EVENT
           THEN /\ appended' = IF appends_sample(p3) THEN appended \cup {i} ELSE appended
                /\ IF charging_event_raises(p3, log)
                   THEN /\ processor' =
                             [p3 EXCEPT !.current_charge = buffer_after_append(p3, log),
                                        !.reached_full_charge = reached_full_update(log)]
                        /\ pc' = "raised"
                        /\ UNCHANGED <<i, closed>>
                   ELSE /\ processor' = loop_body(processor, logs, i)
                        /\ closed' = IF p3.charge_end THEN Append(closed, i) ELSE closed
                        /\ i' = i + 1
                        /\ pc' = pc
           ELSE /\ processor' = loop_body(processor, logs, i)
                /\ i' = i + 1
                /\ UNCHANGED <<pc, appended, closed>>
    /\ UNCHANGED <<log_data, result, peer, reports, rendered>>

\* lines 325-345: the loop is over, assemble and return battery_data
Finish ==
    /\ pc = "loop"
    /\ i > Len(log_data.logs)
    /\ IF finish_raises(log_data)
       THEN pc' = "raised" /\ UNCHANGED result
       ELSE /\ result' = battery_data_of(log_data.vehicle, processor)
            /\ pc' = "done"
    /\ UNCHANGED <<log_data, i, processor, appended, closed, peer, reports, rendered>>

Next == ReturnEmpty \/ Start \/ ProcessSample \/ Finish

\* the same four steps of the second invocation, on its own locals
PeerReturnEmpty ==
    /\ peer.pc = "start"
    /\ no_logs(peer.log_data)
    /\ peer' = [peer EXCEPT !.result = empty_result, !.pc = "done"]
    /\ UNCHANGED <<log_data, pc, i, processor, result, appended, closed, reports, rendered>>

PeerStart ==
    /\ peer.pc = "start"
    /\ ~no_logs(peer.log_data)
    /\ peer' = IF start_raises(peer.log_data) THEN [peer EXCEPT !.pc = "raised"]
               ELSE
               [peer EXCEPT
                   !.processor = construct_processor(
                                     processor,
                                     peer.log_data.vehicle.design_capacity_kwh,
                                     peer.log_data.vehicle.nominal_pack_voltage),
                   !.i = 1,
                   !.pc = "loop"]
    /\ UNCHANGED <<log_data, pc, i, processor, result, appended, closed, reports, rendered>>

PeerProcessSample ==
    /\ peer.pc = "loop"
    /\ peer.i <= Len(peer.log_data.logs)
    /\ peer' = IF \/ sample_raises(peer.processor, peer.log_data.logs, peer.i)
                  \/ loop_raises(peer.processor, peer.log_data.logs, peer.i)
               THEN [peer EXCEPT !.pc = "raised"]
               ELSE [peer EXCEPT
                       !.processor = loop_body(peer.processor, peer.log_data.logs, peer.i),
                       !.i = peer.i + 1]
    /\ UNCHANGED <<log_data, pc, i, processor, result, appended, closed, reports, rendered>>

PeerFinish ==
    /\ peer.pc = "loop"
    /\ peer.i > Len(peer.log_data.logs)
    /\ peer' = IF finish_raises(peer.log_data) THEN [peer EXCEPT !.pc = "raised"]
               ELSE
               [peer EXCEPT
                   !.result = battery_data_of(peer.log_data.vehicle, peer.processor),
                   !.pc = "done"]
    /\ UNCHANGED <<log_data, pc, i, processor, result, appended, closed, reports, rendered>>

\* json.dumps: the text of an object, which json.loads reads back
json_dumps(obj) == [json |-> obj]

\* ids of the vehicles a report is filed under
VehicleIds == {1, 2}

\* services.py lines 35-36: the analysis returned, svc_create_report stores
\* one row with the next id; an analysis that raised never gets here
CreateReport ==
    /\ pc = "done"
    /\ \E vehicle_id \in VehicleIds :
          reports' = Append(reports,
                            [ id |-> Len(reports) + 1,
                              vehicle_id |-> vehicle_id,
                              raw_log_json |-> json_dumps(log_data),
                              result_json |-> json_dumps(result) ])
    /\ pc' = "stored"
    /\ UNCHANGED <<log_data, i, processor, result, appended, closed, peer, rendered>>

\* json.loads of a text json.dumps wrote
json_loads(text) == text.json

\* db_utils.get_report: the rows with that primary key, none or one
get_report(rid) == {n \in DOMAIN reports : reports[n].id = rid}

\* the keyword-only parameters of build_reports (build_report.py lines 27-32)
build_reports_keywords == {"template_dir", "out_dir"}

\* a call with a keyword the function does not have raises TypeError
call_raises(keywords, accepted) == ~(keywords \subseteq accepted)

\* what build_reports returns: the paths of the two files it wrote for data
build_reports(data) ==
    [ json |-> [file |-> "json", of |-> data],
      html |-> [file |-> "html", of |-> data] ]

\* svc_render_report_html(rid), services.py lines 47-52, for a stored id or
\* for the first id that is not stored
RenderReport ==
    /\ \E rid \in 1..(Len(reports) + 1) :
          rendered' =
            IF get_report(rid) = {}
            THEN [rid |-> rid, raised |-> FALSE, body |-> "<h1>Report not found</h1>"]
            ELSE LET rep == reports[CHOOSE n \in get_report(rid) : TRUE]
                     data == json_loads(rep.result_json)
                 IN  IF call_raises({"get_html"}, build_reports_keywords)
                     THEN [rid |-> rid, raised |-> TRUE, body |-> "TypeError"]
                     ELSE [rid |-> rid, raised |-> FALSE,
                           body |-> build_reports(data).html]
    /\ rendered' # rendered
    /\ UNCHANGED <<log_data, pc, i, processor, result, appended, closed, peer, reports>>

\* the requests of the report service: svc_create_report (the analysis, then
\* the insert) and svc_render_report_html
NextSvc ==
    \/ ReturnEmpty \/ Start \/ ProcessSample \/ Finish \/ CreateReport
    \/ RenderReport

\* two invocations whose steps interleave in any order
NextPair ==
    \/ ReturnEmpty \/ Start \/ ProcessSample \/ Finish
    \/ PeerReturnEmpty \/ PeerStart \/ PeerProcessSample \/ PeerFinish

-----------------------------------------------------------------------------
(* Inputs *)

\* the TelemetrySamples of the general specification: Charge samples at every
\* SoC level (20, 25, 80, 99.8 and 100 %) with two energies, Drive and Rest
\* samples, which only move the SoC and end a run, at three levels
SocLevels == {Pct(20), Pct(25), Pct(80), Pct(100) - 1, Pct(100)}

IdleSocLevels == {Pct(20), Pct(80), Pct(100)}

BaseSample(event, soc, energy) ==
    [ ts |-> 0, event |-> event, soc |-> soc, energy_in_kwh |-> energy,
      pack_current |-> 0, cell_voltages |-> <<3700, 3700>>,
      cell_temps_c |-> <<250, 250>> ]

Samples ==
    {BaseSample(CHARGE_EVENT, s, e) : s \in SocLevels, e \in {10, 20}}
    \cup {BaseSample(ev, s, 0) : ev \in {DRIVE_EVENT, REST_EVENT}, s \in IdleSocLevels}

\* the samples of the specification over several charge runs
LongSamples ==
    {BaseSample(CHARGE_EVENT, s, e) : s \in {Pct(20), Pct(80)}, e \in {10, 20}}
    \cup {BaseSample(REST_EVENT, Pct(80), 0)}

Vehicle(capacity) ==
    [ vin |-> "VIN0001", make |-> "Make", model |-> "Model", year |-> 2020,
      design_capacity_kwh |-> capacity, nominal_pack_voltage |-> 400 ]

\* timestamps follow the order of the log
Stamp(raw) == [k \in DOMAIN raw |-> [raw[k] EXCEPT !.ts = k]]

\* no second invocation
NoPeer == [log_data |-> <<>>, pc |-> "idle", i |-> 0, processor |-> <<>>, result |-> <<>>]

\* the first invocation is about to begin
InitMain(vehicles, samples, maxlen) ==
    /\ \E v \in vehicles, present \in BOOLEAN, n \in 0..maxlen :
         \E raw \in [1..n -> samples] :
            /\ present \/ n = 0
            /\ log_data = [vehicle |-> v, logs_present |-> present, logs |-> Stamp(raw)]
    /\ pc = "start"
    /\ i = 0
    /\ processor = <<>>
    /\ result = <<>>
    /\ appended = {}
    /\ closed = <<>>
    /\ reports = <<>>
    /\ rendered = <<>>

\* one invocation alone
InitWith(vehicles, samples, maxlen) ==
    /\ InitMain(vehicles, samples, maxlen)
    /\ peer = NoPeer

Init == InitWith({Vehicle(50)}, Samples, MaxLen)

Spec == Init /\ [][Next]_vars

\* the samples of the specification of the anomaly detection: cell voltage
\* spreads around both imbalance thresholds with pack currents around a C-rate
\* of 0.1 (10 A for 40 kWh at 400 V), voltages and temperatures at and beyond
\* their limits, in samples of every event kind
AnomSample(event, current, voltages, temps) ==
    [ ts |-> 0, event |-> event, soc |-> Pct(80), energy_in_kwh |-> 10,
      pack_current |-> current, cell_voltages |-> voltages, cell_temps_c |-> temps ]

AnomSamples ==
    {AnomSample(REST_EVENT, c, <<3700, 3700 + d>>, <<250, 250>>) :
        c \in {0, 10, 11, -11}, d \in {30, 31, 60, 61}}
    \cup {AnomSample(ev, c, <<4250, 4100>>, <<250, 250>>) :
        ev \in {DRIVE_EVENT, CHARGE_EVENT}, c \in {0, -11}}
    \cup {AnomSample(CHARGE_EVENT, 0, v, <<250, 250>>) :
        v \in {<<4200, 4200>>, <<2500, 2500>>, <<4201, 2499>>}}
    \cup {AnomSample(ev, 0, <<3700, 3700>>, t) :
        ev \in {DRIVE_EVENT, CHARGE_EVENT},
        t \in {<<250, 250>>, <<550, 550>>, <<551, 551>>, <<0, 0>>, <<-1, -1>>,
               <<250, 300>>, <<301, 250>>, <<-1, 551>>}}

InitAnom == InitWith({Vehicle(40)}, AnomSamples, MaxAnomLen)

SpecAnom == InitAnom /\ [][Next]_vars

\* the samples of the specification of a pair of invocations: two Charge
\* samples that form a qualifying run and a Rest sample, every one with cell
\* readings that leave anomaly records
PairSamples ==
    { [ ts |-> 0, event |-> CHARGE_EVENT, soc |-> Pct(20), energy_in_kwh |-> 10,
        pack_current |-> 0, cell_voltages |-> <<4250, 4100>>,
        cell_temps_c |-> <<250, 250>> ],
      [ ts |-> 0, event |-> CHARGE_EVENT, soc |-> Pct(80), energy_in_kwh |-> 20,
        pack_current |-> -11, cell_voltages |-> <<3700, 3761>>,
        cell_temps_c |-> <<-1, 551>> ],
      [ ts |-> 0, event |-> REST_EVENT, soc |-> Pct(100), energy_in_kwh |-> 0,
        pack_current |-> 0, cell_voltages |-> <<3700, 3700>>,
        cell_temps_c |-> <<250, 301>> ] }

\* the log with the samples at positions a and b exchanged, each sample
\* keeping its own timestamp
SwapSamples(logs, a, b) ==
    [k \in DOMAIN logs |-> IF k = a THEN logs[b] ELSE IF k = b THEN logs[a] ELSE logs[k]]

\* both invocations are about to begin; the second one is given a log of its
\* own, or the log of the first with two samples exchanged
InitPair ==
    /\ InitMain({Vehicle(40)}, PairSamples, MaxPairLen)
    /\ \E v \in {Vehicle(40), Vehicle(50)}, present \in BOOLEAN, n \in 0..MaxPairLen :
         \E raw \in [1..n -> PairSamples] :
         \E a, b \in 0..n :
            /\ present \/ n = 0
            /\ a <= b
            /\ (a = 0) = (b = 0)
            /\ a # 0 => (a < b /\ v = Vehicle(40))
            /\ peer = [ log_data |->
                           [ vehicle |-> v, logs_present |-> present,
                             logs |-> IF a = 0 THEN Stamp(raw)
                                      ELSE SwapSamples(Stamp(raw), a, b) ],
                        pc |-> "start", i |-> 0, processor |-> <<>>, result |-> <<>> ]

SpecPair == InitPair /\ [][NextPair]_vars

\* a dict without one of its keys
Without(d, key) == [k \in DOMAIN d \ {key} |-> d[k]]

\* the inputs of the report service, which stores whatever JSON was uploaded:
\* a complete profile and complete Charge and Rest samples, and each of them
\* with one required field left out or with an empty list of cell voltages
SvcVehicles ==
    {Vehicle(50)}
    \cup {Without(Vehicle(50), key) :
             key \in {"vin", "design_capacity_kwh", "nominal_pack_voltage"}}

SvcSamples ==
    LET whole == {BaseSample(CHARGE_EVENT, Pct(80), 10), BaseSample(REST_EVENT, Pct(80), 0)}
    IN  whole
        \cup {Without(s, key) :
                 s \in whole,
                 key \in {"soc", "energy_in_kwh", "pack_current",
                          "cell_voltages", "cell_temps_c"}}
        \cup {Without(BaseSample(REST_EVENT, Pct(80), 0), "event"),
              [BaseSample(REST_EVENT, Pct(80), 0) EXCEPT !.cell_voltages = <<>>]}

InitSvc == InitWith(SvcVehicles, SvcSamples, MaxSvcLen)

SpecSvc == InitSvc /\ [][NextSvc]_vars

\* the samples of the specification of successive charge runs: Charge samples
\* at 100, 20 and 80 % and a Rest sample, in logs long enough for two runs of
\* two samples with a Rest sample between them
RunSamples ==
    { BaseSample(CHARGE_EVENT, Pct(100), 10),
      BaseSample(CHARGE_EVENT, Pct(20), 10),
      BaseSample(CHARGE_EVENT, Pct(80), 20),
      BaseSample(REST_EVENT, Pct(80), 0) }

InitRuns == InitWith({Vehicle(50)}, RunSamples, MaxRunsLen)

SpecRuns == InitRuns /\ [][Next]_vars

\* the loop is a for statement over a finite list: while a step is possible
\* one is taken
FairSamples ==
    { BaseSample(CHARGE_EVENT, Pct(20), 10),
      BaseSample(CHARGE_EVENT, Pct(100), 10),
      BaseSample(REST_EVENT, Pct(80), 0) }

InitFair == InitWith({Vehicle(50)}, FairSamples, MaxFairLen)

FairPass == InitFair /\ [][Next]_vars /\ WF_vars(Next)

InitLong == InitWith({Vehicle(50), Vehicle(60)}, LongSamples, MaxLongLen)

SpecLong == InitLong /\ [][Next]_vars

-----------------------------------------------------------------------------
(* Vocabulary of the properties, stated over the input log alone *)

lg == log_data.logs

\* the samples the loop has handled so far
Processed == 1..(i - 1)

HasResult == pc = "done" /\ log_data.logs_present /\ Len(lg) > 0

IsCharge(logs, k) == k \in DOMAIN logs /\ logs[k].event = "charge"

\* first index of the maximal block of Charge samples that holds k
RunStart(logs, k) ==
    CHOOSE a \in 1..k :
        /\ \A j \in a..k : IsCharge(logs, j)
        /\ a = 1 \/ ~IsCharge(logs, a - 1)

\* k is the last sample of a maximal block of Charge samples
ClosesRun(logs, k) ==
    IsCharge(logs, k) /\ (k = Len(logs) \/ ~IsCharge(logs, k + 1))

\* the maximal blocks <<a, b>> of Charge samples that end at or before n
RunsUpTo(logs, n) ==
    {<<RunStart(logs, b), b>> : b \in {k \in 1..n : ClosesRun(logs, k)}}

\* a SoC whose whole-percent part is 100
IsFull(soc) == Pct(100) <= soc /\ soc < Pct(101)

\* the samples of the run a..b that enter the buffer: the first one, and every
\* one whose predecessor in the run did not read 100 %
Kept(logs, a, b) == {k \in a..b : k = a \/ ~IsFull(logs[k - 1].soc)}

LastKept(logs, a, b) ==
    CHOOSE k \in Kept(logs, a, b) : \A j \in Kept(logs, a, b) : j <= k

\* |last buffered soc - first buffered soc| of the run a..b
KeptDelta(logs, a, b) == Abs(logs[LastKept(logs, a, b)].soc - logs[a].soc)

\* |soc at the end of the run - soc at its start|
RunDelta(logs, a, b) == Abs(logs[b].soc - logs[a].soc)

RECURSIVE KeptEnergy(_, _, _)
KeptEnergy(logs, a, b) ==
    IF b < a THEN 0
    ELSE KeptEnergy(logs, a, b - 1)
         + (IF b \in Kept(logs, a, b) THEN logs[b].energy_in_kwh ELSE 0)

\* total_energy*100/delta_soc/design_capacity_kwh*100 of the run a..b
CycleSoh(logs, a, b, capacity) ==
    Rat(KeptEnergy(logs, a, b) * 100 * 100 * Pct(1), KeptDelta(logs, a, b) * capacity)

\* the per-cycle values of the runs that end at or before n, in run order
RECURSIVE CycleValues(_, _, _)
CycleValues(logs, n, capacity) ==
    IF n = 0 THEN <<>>
    ELSE LET before == CycleValues(logs, n - 1, capacity)
             a == RunStart(logs, n)
         IN  IF ClosesRun(logs, n) /\ KeptDelta(logs, a, n) > Pct(5)
             THEN Append(before, CycleSoh(logs, a, n, capacity))
             ELSE before

\* h hundredths is a nearest 2-decimal value of the fraction p
NearestHundredth(h, p) == Abs(200 * p[1] - 2 * h * p[2]) <= p[2]

\* sum over k in 2..n of |soc_k - soc_(k-1)|, over the Charge samples k only
\* when chargeOnly
RECURSIVE SumDeltas(_, _, _)
SumDeltas(logs, n, chargeOnly) ==
    IF n < 2 THEN 0
    ELSE SumDeltas(logs, n - 1, chargeOnly)
         + (IF chargeOnly /\ ~IsCharge(logs, n) THEN 0
            ELSE Abs(logs[n].soc - logs[n - 1].soc))

AnomalyLists(r) ==
    << r.anomalies.voltage.voltage_range_anomalies,
       r.anomalies.voltage.voltage_difference_anomalies,
       r.anomalies.temperature.temperature_range_anomalies,
       r.anomalies.temperature.temperature_difference_anomalies >>

\* the highest and the lowest reading of the cells of one sample
Highest(cells) ==
    CHOOSE x \in {cells[k] : k \in DOMAIN cells} : \A k \in DOMAIN cells : cells[k] <= x

Lowest(cells) ==
    CHOOSE x \in {cells[k] : k \in DOMAIN cells} : \A k \in DOMAIN cells : x <= cells[k]

Spread(cells) == Highest(cells) - Lowest(cells)

\* |pack_current| / (design_capacity_kwh * 1000 / nominal_pack_voltage) against 0.1
CRateAbove(vehicle, s) ==
    Abs(s.pack_current) * vehicle.nominal_pack_voltage > 100 * vehicle.design_capacity_kwh

CRateExactly(vehicle, s) ==
    Abs(s.pack_current) * vehicle.nominal_pack_voltage = 100 * vehicle.design_capacity_kwh

\* the imbalance limit of a sample, in mV
ImbalanceLimit(vehicle, s) == IF CRateAbove(vehicle, s) THEN 60 ELSE 30

\* the records of a list that carry the timestamp of sample s
RecordsOf(list, s) == SelectSeq(list, LAMBDA r : r.timestamp = s.ts)

Comments(list) == [n \in DOMAIN list |-> list[n].comment]

\* the comments of the records one sample is due, looked at alone, in each of
\* the four lists (numbered as in AnomalyLists)
DueComments(kind, vehicle, s) ==
    CASE kind = 1 ->
           (IF Highest(s.cell_voltages) > 4200 THEN <<"Cell voltage too high">> ELSE <<>>)
           \o (IF Lowest(s.cell_voltages) < 2500 THEN <<"Cell voltage too low">> ELSE <<>>)
      [] kind = 2 ->
           IF Spread(s.cell_voltages) > ImbalanceLimit(vehicle, s)
           THEN IF CRateAbove(vehicle, s)
                THEN <<"Cell voltage difference exceeds threshold under load">>
                ELSE <<"Cell voltage difference exceeds threshold at rest">>
           ELSE <<>>
      [] kind = 3 ->
           (IF Highest(s.cell_temps_c) > 550 THEN <<"Cell temperature too high">> ELSE <<>>)
           \o (IF Lowest(s.cell_temps_c) < 0 THEN <<"Cell temperature too low">> ELSE <<>>)
      [] kind = 4 ->
           IF Spread(s.cell_temps_c) > 50
           THEN <<"Cell temperature difference too high">> ELSE <<>>

\* <<timestamp, comment>> of every record of a list
Tags(list) == [n \in DOMAIN list |-> <<list[n].timestamp, list[n].comment>>]

\* the tags due to the first n samples of a log, in the order of the samples
RECURSIVE DueTags(_, _, _, _)
DueTags(kind, vehicle, logs, n) ==
    IF n = 0 THEN <<>>
    ELSE LET due == DueComments(kind, vehicle, logs[n])
         IN  DueTags(kind, vehicle, logs, n - 1)
             \o [m \in DOMAIN due |-> <<logs[n].ts, due[m]>>]

\* the four lists as the processor holds them
ProcessorLists ==
    << processor.voltage_range_anomalies,
       processor.voltage_difference_anomalies,
       processor.temperature_range_anomalies,
       processor.temperature_difference_anomalies >>

\* the logs of the second invocation, and whether it returned an analysis
peerlg == peer.log_data.logs

PeerHasResult == peer.pc = "done" /\ peer.log_data.logs_present /\ Len(peerlg) > 0

\* log b is log a with the samples at two positions exchanged
IsSwapOf(a, b) ==
    /\ Len(a) = Len(b)
    /\ \E x, y \in DOMAIN a :
          /\ x < y
          /\ b[x] = a[y] /\ b[y] = a[x]
          /\ \A k \in DOMAIN a \ {x, y} : b[k] = a[k]

DistinctStamps(logs) ==
    \A x, y \in DOMAIN logs : x # y => logs[x].ts # logs[y].ts

Count(list, r) == Cardinality({n \in DOMAIN list : list[n] = r})

\* the two lists hold the same records the same number of times
SameMultiset(l1, l2) ==
    /\ Len(l1) = Len(l2)
    /\ \A n \in DOMAIN l1 : Count(l1, l1[n]) = Count(l2, l1[n])

PositionOf(logs, ts) == CHOOSE k \in DOMAIN logs : logs[k].ts = ts

\* the records of a list follow the order of the samples of the log
InSampleOrder(list, logs) ==
    \A m, n \in DOMAIN list :
        m < n => PositionOf(logs, list[m].timestamp) <= PositionOf(logs, list[n].timestamp)

\* the fields a profile and a sample must carry
RequiredVehicleFields == {"vin", "design_capacity_kwh", "nominal_pack_voltage"}

RequiredSampleFields ==
    {"soc", "event", "energy_in_kwh", "pack_current", "cell_voltages", "cell_temps_c"}

\* a required field is absent, or a list of cell readings is empty
Malformed(data) ==
    \/ \E key \in RequiredVehicleFields : key \notin DOMAIN data.vehicle
    \/ \E k \in DOMAIN data.logs :
          \/ \E key \in RequiredSampleFields : key \notin DOMAIN data.logs[k]
          \/ \E key \in {"cell_voltages", "cell_temps_c"} : data.logs[k][key] = <<>>

\* what lines 85-90 store of a sample
Entry(s) == [soc |-> s.soc, energy_in_kwh |-> s.energy_in_kwh]

\* the entries of the samples of the index set S, in the order of the log
RECURSIVE EntriesOf(_, _, _)
EntriesOf(logs, S, n) ==
    IF n = 0 THEN <<>>
    ELSE IF n \in S THEN Append(EntriesOf(logs, S, n - 1), Entry(logs[n]))
         ELSE EntriesOf(logs, S, n - 1)

\* a sample of which only the event kind is known
EventOnly(event) ==
    [ ts |-> 0, event |-> event, soc |-> 0, energy_in_kwh |-> 0,
      pack_current |-> 0, cell_voltages |-> <<3700>>, cell_temps_c |-> <<250>> ]

\* the log as far as sample k, followed by the event kind of sample k+1
CutAfter(logs, k) ==
    IF k < Len(logs)
    THEN SubSeq(logs, 1, k) \o <<EventOnly(logs[k + 1].event)>>
    ELSE logs

\* the HTML page of an analysis result
HtmlOf(data) == [html |-> data]

-----------------------------------------------------------------------------
(* Properties *)

\* C1 (as claimed): a Charge sample enters the run buffer exactly when no
\* earlier sample of its run had floor(soc) = 100; the sample that first
\* reaches 100 % is itself appended, every later one of the run is not.
C1_LatchedFull ==
    \A k \in Processed :
        IsCharge(lg, k) =>
            (k \in appended <=> \A j \in RunStart(lg, k)..(k - 1) : ~IsFull(lg[j].soc))

\* C2 (as claimed): with no samples the result carries SoH absent, the three
\* cycle counts 0, the four anomaly sequences present and empty, and the
\* vehicle info of the profile.
C2_EmptyShape ==
    (pc = "done" /\ no_logs(log_data)) =>
        /\ DOMAIN result = {"vehicle_info", "soh", "cdc_data", "anomalies"}
        /\ result.soh = None
        /\ result.cdc_data.overall_cycles = 0
        /\ result.cdc_data.charge_cycles = 0
        /\ result.cdc_data.discharge_cycles = 0
        /\ \A n \in 1..4 : AnomalyLists(result)[n] = <<>>
        /\ result.vehicle_info.vin = log_data.vehicle.vin

\* C2 (amended): with no samples (key absent or list empty) the result is the
\* empty dict: no SoH, no cycle counts, no anomaly sequences, no vehicle info.
C2_EmptyDict ==
    (pc = "done" /\ (~log_data.logs_present \/ Len(lg) = 0)) => DOMAIN result = {}

C2_Witness == pc = "done" /\ log_data.logs_present /\ Len(lg) = 0 /\ DOMAIN result = {}

\* C3 (as claimed): for a non-empty log SoH is absent exactly when no charge
\* run has |soc at its end - soc at its start| > 5.0.
C3_RunDelta ==
    HasResult =>
        (result.soh = None <=>
            \A r \in RunsUpTo(lg, Len(lg)) : RunDelta(lg, r[1], r[2]) <= Pct(5))

\* C3 (amended): for a non-empty log SoH is absent exactly when no charge run
\* has |last buffered soc - first buffered soc| > 5.0; otherwise it is one
\* finite value.
C3_KeptDelta ==
    HasResult =>
        /\ result.soh = None <=>
              \A r \in RunsUpTo(lg, Len(lg)) : KeptDelta(lg, r[1], r[2]) <= Pct(5)
        /\ result.soh # None => Len(result.soh) = 1 /\ result.soh[1] \in Int

\* a run whose buffered delta passes the filter although its end-to-start
\* delta does not, and a SoH is returned
C3_Witness ==
    /\ HasResult
    /\ result.soh # None
    /\ \E r \in RunsUpTo(lg, Len(lg)) :
          KeptDelta(lg, r[1], r[2]) > Pct(5) /\ RunDelta(lg, r[1], r[2]) <= Pct(5)

\* C4: the closing branch has run at exactly the handled samples that are a
\* Charge sample followed by a non-Charge sample or by the end of the log, in
\* order and once each; so every maximal Charge block handled so far was
\* closed once, at its last sample, and nowhere else.
C4_ClosureRule ==
    /\ \A k \in Processed : (\E n \in DOMAIN closed : closed[n] = k) <=> ClosesRun(lg, k)
    /\ \A n \in DOMAIN closed : closed[n] \in Processed
    /\ \A m, n \in DOMAIN closed : m < n => closed[m] < closed[n]
    /\ \A r \in RunsUpTo(lg, i - 1) :
          {n \in DOMAIN closed : closed[n] \in r[1]..r[2]}
              = {n \in DOMAIN closed : closed[n] = r[2]}
          /\ Cardinality({n \in DOMAIN closed : closed[n] = r[2]}) = 1

\* two runs closed, one by a following non-Charge sample and one by the end
C4_Witness ==
    /\ pc = "done"
    /\ Len(closed) = 2
    /\ closed[1] < Len(lg) - 1
    /\ closed[2] = Len(lg)

\* C5: no closure fails on an empty run buffer: the pass never raises
\* IndexError, because a sample about to close its run always finds the
\* buffer non-empty or is itself appended.
C5_NoEmptyClosure ==
    /\ pc # "raised"
    /\ (pc = "loop" /\ i \in DOMAIN lg /\ ClosesRun(lg, i)) =>
          (processor.current_charge # <<>> \/ ~processor.reached_full_charge)

\* a run was closed by a sample that the full-charge flag kept out of the buffer
C5_Witness ==
    /\ pc = "loop"
    /\ closed # <<>>
    /\ closed[Len(closed)] = i - 1
    /\ (i - 1) \notin appended

C7_CleanAfterClosure ==
    (pc \in {"loop", "done"} /\ closed # <<>> /\ closed[Len(closed)] = i - 1) =>
        /\ processor.current_charge = <<>>
        /\ ~processor.reached_full_charge
        /\ ~processor.charge_end

\* a run that ended at 100 % without qualifying has just been closed
C7_Witness ==
    /\ pc = "loop"
    /\ closed # <<>>
    /\ closed[Len(closed)] = i - 1
    /\ IsFull(lg[i - 1].soc)
    /\ processor.charge_results = <<>>
    /\ processor.current_charge = <<>>

\* C8: the returned SoH is the mean of the per-cycle values of the pass,
\* rounded to 2 decimals (absent when there is none); one run 20 % -> 80 %
\* with 30 kWh buffered and a 50 kWh design capacity gives 100.00.
C8_MeanSoh ==
    HasResult =>
        LET values == CycleValues(lg, Len(lg), log_data.vehicle.design_capacity_kwh)
        IN  /\ values = <<>> => result.soh = None
            /\ values # <<>> =>
                 /\ result.soh # None
                 /\ NearestHundredth(result.soh[1],
                                     RatDivInt(SumRat(values), Len(values)))
            /\ ( /\ Len(lg) = 2
                 /\ IsCharge(lg, 1) /\ IsCharge(lg, 2)
                 /\ lg[1].soc = Pct(20) /\ lg[2].soc = Pct(80)
                 /\ lg[1].energy_in_kwh + lg[2].energy_in_kwh = 30
                 /\ log_data.vehicle.design_capacity_kwh = 50 )
               => result.soh = Some(10000)

\* two cycles of different SoH were averaged
C8_Witness ==
    /\ HasResult
    /\ LET values == CycleValues(lg, Len(lg), log_data.vehicle.design_capacity_kwh)
       IN  Len(values) = 2 /\ values[1] # values[2]
    /\ result.soh # None

\* C9: after any prefix of the pass cumulative_soc_delta is the sum of
\* |soc_k - soc_(k-1)| over the handled k >= 2, and
\* cumulative_charge_soc_delta the same sum over the Charge samples k only;
\* a one-sample log yields three cycle counts of 0.
C9_CumulativeDeltas ==
    /\ (pc = "loop" \/ HasResult) =>
          /\ processor.cumulative_soc_delta = SumDeltas(lg, i - 1, FALSE)
          /\ processor.cumulative_charge_soc_delta = SumDeltas(lg, i - 1, TRUE)
    /\ (HasResult /\ Len(lg) = 1) =>
          /\ result.cdc_data.overall_cycles = 0
          /\ result.cdc_data.charge_cycles = 0
          /\ result.cdc_data.discharge_cycles = 0

\* a pass with a counted Charge delta and a counted non-Charge delta
C9_Witness ==
    /\ HasResult
    /\ Len(lg) >= 3
    /\ processor.cumulative_charge_soc_delta > 0
    /\ processor.cumulative_soc_delta > processor.cumulative_charge_soc_delta
    /\ lg[1].soc > 0

\* C10: for a non-empty log the three cycle counts are >= 0 and
\* discharge_cycles is the 2-decimal rounding of overall_cycles minus
\* charge_cycles; throughout the pass
\* cumulative_charge_soc_delta <= cumulative_soc_delta.
C10_CycleCounts ==
    /\ (pc = "loop" \/ HasResult) =>
          /\ 0 <= processor.cumulative_charge_soc_delta
          /\ processor.cumulative_charge_soc_delta <= processor.cumulative_soc_delta
    /\ HasResult =>
          /\ result.cdc_data.overall_cycles >= 0
          /\ result.cdc_data.charge_cycles >= 0
          /\ result.cdc_data.discharge_cycles >= 0
          /\ result.cdc_data.discharge_cycles
               = result.cdc_data.overall_cycles - result.cdc_data.charge_cycles
          /\ NearestHundredth(result.cdc_data.overall_cycles,
                              <<processor.cumulative_soc_delta, Pct(100)>>)
          /\ NearestHundredth(result.cdc_data.charge_cycles,
                              <<processor.cumulative_charge_soc_delta, Pct(100)>>)

\* a result whose charge and discharge counts are both positive
C10_Witness ==
    /\ HasResult
    /\ result.cdc_data.charge_cycles > 0
    /\ result.cdc_data.discharge_cycles > 0

\* C11: a voltage-imbalance record is emitted for a sample exactly when its
\* spread (max - min cell voltage, mV) exceeds the limit of its regime: 60 mV
\* when the C-rate is above 0.1, else 30 mV (a C-rate of exactly 0.1 included);
\* the record carries the spread, the limit and the regime, and a spread above
\* 60 mV is recorded whatever the pack current.
C11_VoltageImbalance ==
    (pc = "loop" \/ HasResult) =>
        \A k \in Processed :
            LET s == lg[k]
                recs == RecordsOf(processor.voltage_difference_anomalies, s)
                spread == Spread(s.cell_voltages)
                limit == ImbalanceLimit(log_data.vehicle, s)
            IN  /\ Len(recs) = (IF spread > limit THEN 1 ELSE 0)
                /\ spread > limit =>
                      /\ recs[1].voltage_difference = spread
                      /\ recs[1].threshold = limit
                      /\ recs[1].comment =
                           (IF CRateAbove(log_data.vehicle, s)
                            THEN "Cell voltage difference exceeds threshold under load"
                            ELSE "Cell voltage difference exceeds threshold at rest")
                /\ (CRateExactly(log_data.vehicle, s) /\ spread > 30) =>
                      Len(recs) = 1 /\ recs[1].threshold = 30
                /\ spread > 60 => Len(recs) = 1

\* a sample at a C-rate of exactly 0.1 with a spread of 31..60 mV was recorded
\* against 30 mV, and a sample under load against 60 mV
C11_Witness ==
    /\ HasResult
    /\ \E k \in Processed :
          /\ CRateExactly(log_data.vehicle, lg[k])
          /\ Spread(lg[k].cell_voltages) \in 31..60
          /\ \E n \in DOMAIN processor.voltage_difference_anomalies :
                /\ processor.voltage_difference_anomalies[n].timestamp = lg[k].ts
                /\ processor.voltage_difference_anomalies[n].threshold = 30
    /\ \E n \in DOMAIN processor.voltage_difference_anomalies :
          processor.voltage_difference_anomalies[n].threshold = 60

\* C12: a sample adds a 'too high' voltage-range record exactly when its
\* highest cell is above 4.2 V and, independently, a 'too low' record exactly
\* when its lowest cell is below 2.5 V, the high one first; cells at exactly
\* 4.2 V or 2.5 V add none.
C12_VoltageRange ==
    (pc = "loop" \/ HasResult) =>
        \A k \in Processed :
            LET s == lg[k]
                recs == RecordsOf(processor.voltage_range_anomalies, s)
                high == Highest(s.cell_voltages) > 4200
                low == Lowest(s.cell_voltages) < 2500
            IN  /\ Comments(recs) =
                      (IF high THEN <<"Cell voltage too high">> ELSE <<>>)
                      \o (IF low THEN <<"Cell voltage too low">> ELSE <<>>)
                /\ \A n \in DOMAIN recs :
                      /\ recs[n].max_voltage = Highest(s.cell_voltages)
                      /\ recs[n].min_voltage = Lowest(s.cell_voltages)

\* one sample added both records, and samples at exactly 4.2 V and at exactly
\* 2.5 V added none
C12_Witness ==
    /\ pc = "loop"
    /\ Len(lg) = 2
    /\ i = 3
    /\ Highest(lg[1].cell_voltages) > 4200 /\ Lowest(lg[1].cell_voltages) < 2500
    /\ Len(processor.voltage_range_anomalies) = 2
    /\ lg[2].cell_voltages \in {<<4200, 4200>>, <<2500, 2500>>}

\* C13: a sample adds a 'too high' temperature-range record exactly when its
\* hottest cell is above 55 C, a 'too low' one exactly when its coldest cell
\* is below 0 C (both may be added), and an imbalance record exactly when the
\* spread is above 5.0 C; 55 C, 0 C and a spread of exactly 5.0 C add nothing.
C13_Temperature ==
    (pc = "loop" \/ HasResult) =>
        \A k \in Processed :
            LET s == lg[k]
                range == RecordsOf(processor.temperature_range_anomalies, s)
                diff == RecordsOf(processor.temperature_difference_anomalies, s)
            IN  /\ Comments(range) =
                      (IF Highest(s.cell_temps_c) > 550
                       THEN <<"Cell temperature too high">> ELSE <<>>)
                      \o (IF Lowest(s.cell_temps_c) < 0
                          THEN <<"Cell temperature too low">> ELSE <<>>)
                /\ Len(diff) = (IF Spread(s.cell_temps_c) > 50 THEN 1 ELSE 0)
                /\ \A n \in DOMAIN diff :
                      diff[n].cells_temperature_difference = Spread(s.cell_temps_c)

\* a sample with cells at -0.1 C and 55.1 C added three records, and a sample
\* with a spread of exactly 5.0 C added none
C13_Witness ==
    /\ pc = "loop"
    /\ Len(lg) = 2
    /\ i = 3
    /\ lg[1].cell_temps_c = <<-1, 551>>
    /\ Spread(lg[2].cell_temps_c) = 50
    /\ Len(processor.temperature_range_anomalies) = 2
    /\ Len(processor.temperature_difference_anomalies) = 1

\* C14: after every prefix of the log each of the four anomaly lists is the
\* concatenation, in sample order, of the records due to each processed
\* sample looked at alone: nothing is removed, reordered, deduplicated or
\* suppressed, and the event kind of a sample plays no part.
C14_AppendOnly ==
    /\ (pc = "loop" \/ HasResult) =>
          \A kind \in 1..4 :
              Tags(ProcessorLists[kind])
                  = DueTags(kind, log_data.vehicle, lg, i - 1)
    /\ HasResult =>
          \A kind \in 1..4 : AnomalyLists(result)[kind] = ProcessorLists[kind]

\* two samples with the same readings, one Charge and one not, each left its
\* records in the voltage-range and in the voltage-imbalance list
C14_Witness ==
    /\ HasResult
    /\ Len(lg) = 2
    /\ lg[1].event = "charge" /\ lg[2].event # "charge"
    /\ lg[1].cell_voltages = lg[2].cell_voltages
    /\ Len(result.anomalies.voltage.voltage_range_anomalies) = 2
    /\ Len(result.anomalies.voltage.voltage_difference_anomalies) = 2
    /\ result.anomalies.voltage.voltage_range_anomalies[1].timestamp = 1
    /\ result.anomalies.voltage.voltage_range_anomalies[2].timestamp = 2

\* C19: for every non-empty log the result holds the vehicle info copied from
\* the profile, the SoH (a value or None), the three cycle counts and, under
\* the voltage and temperature groups, all four anomaly lists, each present
\* and empty exactly when no sample was due a record in it; no step of the
\* analysis changes the input profile or the input samples.
C19_ResultShape ==
    /\ [](HasResult =>
            /\ DOMAIN result = {"vehicle_info", "soh", "cdc_data", "anomalies"}
            /\ result.vehicle_info =
                 [ vin   |-> log_data.vehicle.vin,
                   make  |-> log_data.vehicle.make,
                   model |-> log_data.vehicle.model,
                   year  |-> log_data.vehicle.year,
                   design_capacity_kwh |-> log_data.vehicle.design_capacity_kwh ]
            /\ result.soh = None \/ Len(result.soh) = 1
            /\ DOMAIN result.cdc_data
                 = {"overall_cycles", "charge_cycles", "discharge_cycles"}
            /\ DOMAIN result.anomalies = {"voltage", "temperature"}
            /\ DOMAIN result.anomalies.voltage
                 = {"voltage_range_anomalies", "voltage_difference_anomalies"}
            /\ DOMAIN result.anomalies.temperature
                 = {"temperature_range_anomalies", "temperature_difference_anomalies"}
            /\ \A kind \in 1..4 :
                  (AnomalyLists(result)[kind] = <<>>)
                      <=> (DueTags(kind, log_data.vehicle, lg, Len(lg)) = <<>>))
    /\ [][log_data' = log_data]_vars

\* a result whose voltage lists hold records while both temperature lists are
\* present and empty
C19_Witness ==
    /\ HasResult
    /\ result.anomalies.voltage.voltage_range_anomalies # <<>>
    /\ result.anomalies.voltage.voltage_difference_anomalies # <<>>
    /\ result.anomalies.temperature.temperature_range_anomalies = <<>>
    /\ result.anomalies.temperature.temperature_difference_anomalies = <<>>
    /\ result.vehicle_info.design_capacity_kwh = 40

\* C20: at every loop boundary, after sample k was handled, the run buffer
\* is non-empty exactly when sample k is a Charge sample followed by another
\* Charge sample; when sample k is not a Charge sample or closes a run, the
\* buffer is empty and reached_full_charge and charge_end are false.
C20_LoopBoundary ==
    ((pc = "loop" \/ HasResult) /\ i > 1) =>
        LET k == i - 1
        IN  /\ (processor.current_charge # <<>>)
                  <=> (IsCharge(lg, k) /\ IsCharge(lg, k + 1))
            /\ (~IsCharge(lg, k) \/ ClosesRun(lg, k)) =>
                  /\ processor.current_charge = <<>>
                  /\ ~processor.reached_full_charge
                  /\ ~processor.charge_end

\* inside a run that began at 100 % the buffer holds that sample; after the
\* Rest sample that follows a closed run everything is clean
C20_Witness ==
    /\ pc = "loop"
    /\ Len(lg) = 3
    /\ \/ /\ i = 2
          /\ IsCharge(lg, 1) /\ IsCharge(lg, 2) /\ IsFull(lg[1].soc)
          /\ Len(processor.current_charge) = 1
          /\ processor.reached_full_charge
       \/ /\ i = 4
          /\ IsCharge(lg, 2) /\ ~IsCharge(lg, 3)
          /\ processor.current_charge = <<>>
          /\ processor.charge_results # <<>>

\* C15: exchanging two samples with distinct timestamps leaves the multiset
\* of records of each of the four anomaly lists unchanged, and in both runs
\* the order of the records follows the order of the samples of that run.
C15_SwapSamples ==
    ( /\ HasResult
      /\ PeerHasResult
      /\ peer.log_data.vehicle = log_data.vehicle
      /\ DistinctStamps(lg)
      /\ IsSwapOf(lg, peerlg) ) =>
        \A kind \in 1..4 :
            /\ SameMultiset(AnomalyLists(result)[kind], AnomalyLists(peer.result)[kind])
            /\ InSampleOrder(AnomalyLists(result)[kind], lg)
            /\ InSampleOrder(AnomalyLists(peer.result)[kind], peerlg)

\* two runs over exchanged samples whose voltage-imbalance lists hold the
\* same two records in opposite orders
C15_Witness ==
    /\ HasResult
    /\ PeerHasResult
    /\ peer.log_data.vehicle = log_data.vehicle
    /\ IsSwapOf(lg, peerlg)
    /\ Len(result.anomalies.voltage.voltage_difference_anomalies) = 2
    /\ result.anomalies.voltage.voltage_difference_anomalies[1]
         = peer.result.anomalies.voltage.voltage_difference_anomalies[2]
    /\ result.anomalies.voltage.voltage_difference_anomalies[2]
         = peer.result.anomalies.voltage.voltage_difference_anomalies[1]
    /\ result.anomalies.voltage.voltage_difference_anomalies[1]
         # result.anomalies.voltage.voltage_difference_anomalies[2]

\* C17: when the steps of two analyses interleave in any order, each with its
\* own processor, each one holds after every step, and returns at its end,
\* exactly what it holds and returns when it runs alone.
C17_Interleaved ==
    /\ pc # "raised" /\ peer.pc # "raised"
    /\ pc = "loop" => processor = pass_upto(log_data, i - 1)
    /\ HasResult =>
          result = battery_data_of(log_data.vehicle, pass_upto(log_data, Len(lg)))
    /\ peer.pc = "loop" => peer.processor = pass_upto(peer.log_data, peer.i - 1)
    /\ PeerHasResult =>
          peer.result = battery_data_of(peer.log_data.vehicle,
                                        pass_upto(peer.log_data, Len(peerlg)))

\* both analyses are in the middle of different logs, each with an open charge
\* run in its own buffer
C17_Witness ==
    /\ pc = "loop" /\ i = 2 /\ Len(lg) = 2
    /\ peer.pc = "loop" /\ peer.i = 2 /\ Len(peerlg) = 2
    /\ processor.current_charge # <<>>
    /\ peer.processor.current_charge # <<>>
    /\ processor.current_charge # peer.processor.current_charge
    /\ processor.voltage_range_anomalies # peer.processor.voltage_range_anomalies

\* C18: two invocations on the same input, whatever the order of their steps,
\* return identical results: nothing of one invocation reaches the other.
C18_Repeatable ==
    (pc = "done" /\ peer.pc = "done" /\ peer.log_data = log_data) =>
        peer.result = result

\* both invocations analysed the same two-sample log and returned the same
\* SoH and the same non-empty anomaly lists
C18_Witness ==
    /\ HasResult
    /\ PeerHasResult
    /\ peer.log_data = log_data
    /\ Len(lg) = 2
    /\ result.soh # None
    /\ result.anomalies.voltage.voltage_range_anomalies # <<>>
    /\ peer.result = result

\* C16 (as claimed): when a required field of the profile or of any sample is
\* missing or invalid the invocation fails as a whole: it never returns a
\* result, neither a partial nor an empty one, and svc_create_report stores
\* no report for that input.
C16_FailFast ==
    Malformed(log_data) => (pc \notin {"done", "stored"} /\ reports = <<>>)

\* C21: while a charge run is open the buffer holds, in the order of the log,
\* entries of Charge samples of the current run only, the first of them the
\* first sample of the run: nothing of an earlier run or of a Drive or Rest
\* sample is in it, so the start_soc a closure reads is the SoC of the first
\* sample of its run.
C21_BufferOfRun ==
    (pc = "loop" \/ HasResult) =>
        /\ i > 1 /\ processor.current_charge # <<>> =>
              LET k == i - 1
                  a == RunStart(lg, k)
              IN  /\ IsCharge(lg, k)
                  /\ \E S \in SUBSET (a..k) :
                        /\ a \in S
                        /\ processor.current_charge = EntriesOf(lg, S, k)
                  /\ processor.current_charge[1] = Entry(lg[a])
        /\ IsCharge(lg, i) =>
              IF RunStart(lg, i) < i
              THEN /\ processor.current_charge # <<>>
                   /\ processor.current_charge[1].soc = lg[RunStart(lg, i)].soc
              ELSE /\ processor.current_charge = <<>>
                   /\ ~processor.reached_full_charge

\* a second run is open after a closed run and a Rest sample and the buffer
\* holds its first sample alone; or a run that began at 100 % is open and the
\* buffer holds two of its three samples, the first one first
C21_Witness ==
    /\ pc = "loop"
    /\ Len(lg) = 4
    /\ i = 4
    /\ IsCharge(lg, 3) /\ IsCharge(lg, 4)
    /\ \/ /\ IsCharge(lg, 1) /\ ~IsCharge(lg, 2)
          /\ processor.current_charge = <<Entry(lg[3])>>
          /\ lg[1].soc # lg[3].soc
       \/ /\ IsCharge(lg, 1) /\ IsCharge(lg, 2)
          /\ IsFull(lg[1].soc)
          /\ processor.current_charge = <<Entry(lg[1]), Entry(lg[3])>>
          /\ lg[2].soc # lg[3].soc

\* C22: after every prefix of the pass the cycle-result list holds at most
\* one value for each charge run closed so far, in the order of the runs; a
\* step never changes or removes a value that is there, and adds at most one,
\* at the last sample of a run.
C22_ResultsGrow ==
    /\ []((pc = "loop" \/ HasResult) =>
            /\ Len(processor.charge_results) <= Cardinality(RunsUpTo(lg, i - 1))
            /\ processor.charge_results
                 = CycleValues(lg, i - 1, log_data.vehicle.design_capacity_kwh))
    /\ [][ (pc = "loop" /\ pc' \in {"loop", "done"}) =>
             /\ Len(processor'.charge_results) >= Len(processor.charge_results)
             /\ Len(processor'.charge_results) <= Len(processor.charge_results) + 1
             /\ SubSeq(processor'.charge_results, 1, Len(processor.charge_results))
                  = processor.charge_results
             /\ Len(processor'.charge_results) > Len(processor.charge_results)
                  => ClosesRun(lg, i) ]_vars

\* two runs were closed and left two different values, in the order of the runs
C22_Witness ==
    /\ HasResult
    /\ Len(lg) = 5
    /\ RunsUpTo(lg, 5) = {<<1, 2>>, <<4, 5>>}
    /\ Len(processor.charge_results) = 2
    /\ processor.charge_results[1] # processor.charge_results[2]
    /\ processor.charge_results[1] = CycleSoh(lg, 1, 2, 50)

\* C23: the pass over a log of n samples ends, after it handled every sample
\* once and in input order: the index starts at the first sample, every
\* iteration moves it on by one, the result is assembled when it has passed
\* the last sample and the log is never changed; what the pass holds after
\* sample k depends on the samples up to k and on the event kind of sample
\* k+1 alone.
C23_OnePass ==
    /\ [][ /\ log_data' = log_data
           /\ (pc = "start" /\ pc' = "loop") => i' = 1
           /\ (pc = "loop" /\ i <= Len(lg)) => (pc' = "loop" /\ i' = i + 1)
           /\ (pc = "loop" /\ i > Len(lg)) => (pc' = "done" /\ i' = i)
           /\ pc = "done" => pc' = "done" ]_vars
    /\ []((pc = "loop" \/ HasResult) =>
            /\ i \in 1..(Len(lg) + 1)
            /\ processor
                 = pass_upto([log_data EXCEPT !.logs = CutAfter(lg, i - 1)], i - 1))
    /\ <>(pc = "done")
    /\ [](pc = "done" => (Len(lg) = 0 \/ i = Len(lg) + 1))

\* a pass over three samples has ended; its lookahead closed one run at a
\* Rest sample and one at the end of the log
C23_Witness ==
    /\ HasResult
    /\ Len(lg) = 3
    /\ i = 4
    /\ closed = <<1, 3>>
    /\ ~IsCharge(lg, 2)

\* C24 (as claimed): svc_create_report stores, after the analysis returned,
\* exactly one report with the serialized raw input and the serialized result
\* under the given vehicle id, its id the new one; svc_render_report_html
\* returns the rendered HTML of every stored report and the 'Report not
\* found' page, without raising, for an id that is not stored.
C24_CreateAndRender ==
    /\ [][ (pc = "done" /\ pc' = "stored") =>
             /\ Len(reports') = Len(reports) + 1
             /\ SubSeq(reports', 1, Len(reports)) = reports
             /\ reports'[Len(reports')].id = Len(reports')
             /\ reports'[Len(reports')].vehicle_id \in VehicleIds
             /\ reports'[Len(reports')].raw_log_json.json = log_data
             /\ reports'[Len(reports')].result_json.json = result ]_vars
    /\ [][ pc' # "stored" => reports' = reports ]_vars
    /\ [](rendered # <<>> =>
            /\ ~rendered.raised
            /\ IF \E n \in DOMAIN reports : reports[n].id = rendered.rid
               THEN \E n \in DOMAIN reports :
                       /\ reports[n].id = rendered.rid
                       /\ rendered.body = HtmlOf(reports[n].result_json.json)
               ELSE rendered.body = "<h1>Report not found</h1>")

====
